---- MODULE Spec2Model ----
(***************************************************************************)
(* Model of the interval reconstruction of graph-service/main.py:          *)
(* build_week_from_events (the weekly assembler) and build_day_segments    *)
(* (the per-day segment builder), with the helpers they use.               *)
(*                                                                         *)
(* Units.  An absolute instant is a whole number of seconds of UTC since   *)
(* an arbitrary Sunday 00:00 UTC.  A datetime in the Kyiv zone is its      *)
(* wall-clock reading, in seconds: Python orders and compares two aware    *)
(* datetimes that share one tzinfo object by their wall-clock fields, so   *)
(* the wall-clock reading is all the program ever looks at.  A decimal     *)
(* hour (to_decimal, cursor, cutoff, start, end) is kept in seconds, that  *)
(* is hour * 3600, so 24.0 is FullDay.  A reported aggregate               *)
(* (hours_online, hours_offline) is kept in hundredths of an hour.         *)
(*                                                                         *)
(* Timestamps are whole seconds: to_decimal drops the microseconds, and    *)
(* two events of one second are told apart by arrival order here as they   *)
(* are by the stable sorts there.  The id and monitor_id of an event are   *)
(* never read by the reconstruction and are left out.  draw_chart, which   *)
(* receives days_draw once the loop ends, is the rendering and is not      *)
(* modelled; date_label stands for the label and holds the local date.     *)
(***************************************************************************)
EXTENDS Integers, Sequences, FiniteSets

\* ---------------------------------------------------------------- constants

MinutesPerHour == 60
SecondsPerHour == 3600
HoursPerDay == 24
DaysInWeek == 7
RoundDigits == 2

SecondsPerMinute == SecondsPerHour \div MinutesPerHour
FullDay == HoursPerDay * SecondsPerHour
\* one hundredth of an hour, the resolution of round(x, 2), in seconds
CentiHour == SecondsPerHour \div (10 ^ RoundDigits)

\* Optional[...] values
None == <<>>
Some(x) == <<x>>

\* ------------------------------------------------------------------- bounds

\* the longest event list of a request
MaxEvents == 2

\* --------------------------------------------------------------- the zone

\* Europe/Kyiv: UTC+3 in summer (EEST), UTC+2 in winter (EET).  The modelled
\* stretch of time holds one change, the autumn one, on a Sunday at 01:00 UTC
\* (04:00 EEST becomes 03:00 EET).
EEST == 3 * SecondsPerHour
EET == 2 * SecondsPerHour
Day(n) == n * FullDay
Hours(n) == n * SecondsPerHour
DstEnd == Day(14) + Hours(1)

KYIV_TZ(t) == IF t < DstEnd THEN EEST ELSE EET

\* datetime.fromisoformat(ts).astimezone(KYIV_TZ): the wall-clock reading
parse_ts(ts) == ts + KYIV_TZ(ts)

\* dt.hour, dt.minute, dt.second of a wall-clock reading
HourOf(dt) == (dt % FullDay) \div SecondsPerHour
MinuteOf(dt) == (dt % SecondsPerHour) \div SecondsPerMinute
SecondOf(dt) == dt % SecondsPerMinute

to_decimal(dt) ==
    HourOf(dt) * SecondsPerHour + MinuteOf(dt) * SecondsPerMinute + SecondOf(dt)

\* dt.date() and dt.strftime('%Y-%m-%d'): the local calendar day
DateOf(dt) == dt \div FullDay

\* dt + timedelta(days=n): wall-clock arithmetic on an aware datetime
PlusDays(dt, n) == dt + n * FullDay

\* mutant: None taken for False by a truthiness test
seg_kind_truthy(status) ==
    IF status # None /\ status[1] THEN "green" ELSE "red"

seg_kind(status) ==
    IF status = None THEN "unknown"
    ELSE IF status[1] THEN "green" ELSE "red"

\* ------------------------------------------------------- the segment builder

Seg(s, e, k) == [start |-> s, end |-> e, kind |-> k]

\* mutant: the loop without its break at known_end
RECURSIVE SegmentLoopNoBreak(_, _, _, _)
SegmentLoopNoBreak(day_events, i, st, known_end) ==
    IF i > Len(day_events) THEN st
    ELSE LET ev == day_events[i] IN
         SegmentLoopNoBreak(day_events, i + 1,
                [segments |-> IF ev.hour > st.cursor
                              THEN Append(st.segments,
                                          Seg(st.cursor, ev.hour, seg_kind(st.status)))
                              ELSE st.segments,
                 cursor |-> ev.hour,
                 status |-> Some(ev.is_online)],
                known_end)

\* the for loop of build_day_segments, from event i on; st is
\* [segments, cursor, status]
RECURSIVE SegmentLoop(_, _, _, _)
SegmentLoop(day_events, i, st, known_end) ==
    IF i > Len(day_events) THEN st
    ELSE LET ev == day_events[i] IN
         IF ev.hour >= known_end THEN st
         ELSE SegmentLoop(day_events, i + 1,
                [segments |-> IF ev.hour > st.cursor
                              THEN Append(st.segments,
                                          Seg(st.cursor, ev.hour, seg_kind(st.status)))
                              ELSE st.segments,
                 cursor |-> ev.hour,
                 status |-> Some(ev.is_online)],
                known_end)

KnownEnd(cutoff) == IF cutoff # None THEN cutoff[1] ELSE FullDay

\* mutant: the final segment appended without the cursor test
FinalSegmentUnguarded(st, known_end) ==
    Append(st.segments, Seg(st.cursor, known_end, seg_kind(st.status)))

FinalSegment(st, known_end) ==
    IF st.cursor < known_end
    THEN Append(st.segments, Seg(st.cursor, known_end, seg_kind(st.status)))
    ELSE st.segments

\* mutant: no trailing future segment
FutureTailMissing(segments, cutoff) == segments

FutureTail(segments, cutoff) ==
    IF cutoff # None /\ cutoff[1] < FullDay
    THEN Append(segments, Seg(cutoff[1], FullDay, "future"))
    ELSE segments

build_day_segments(day_events, initial_status, cutoff) ==
    LET known_end == KnownEnd(cutoff)
        st == SegmentLoop(day_events, 1,
                          [segments |-> <<>>, cursor |-> 0, status |-> initial_status],
                          known_end)
    IN [segments |-> FutureTail(FinalSegment(st, known_end), cutoff),
        status |-> st.status]

\* ------------------------------------------------------------ sorting, sums

\* insert x after every element whose key is <= its own: with InsertionSort,
\* Python's stable sorted(seq, key=...)
RECURSIVE InsertByKey(_, _, _)
InsertByKey(x, kx, keyed) ==
    IF keyed = <<>> THEN <<[key |-> kx, val |-> x]>>
    ELSE IF kx < keyed[Len(keyed)].key
         THEN Append(InsertByKey(x, kx, SubSeq(keyed, 1, Len(keyed) - 1)),
                     keyed[Len(keyed)])
         ELSE Append(keyed, [key |-> kx, val |-> x])

RECURSIVE SortKeyed(_, _)
SortKeyed(seq, n) ==
    IF n = 0 THEN <<>>
    ELSE InsertByKey(seq[n].val, seq[n].key, SortKeyed(seq, n - 1))

\* mutant: the events taken in arrival order, unsorted
EventsUnsorted(evs) == evs

EventsByTimestamp(evs) ==
    LET keyed == [i \in 1..Len(evs) |-> [key |-> parse_ts(evs[i].timestamp), val |-> evs[i]]]
        s == SortKeyed(keyed, Len(keyed))
    IN [i \in 1..Len(s) |-> s[i].val]

DayEventsByHour(des) ==
    LET keyed == [i \in 1..Len(des) |-> [key |-> des[i].hour, val |-> des[i]]]
        s == SortKeyed(keyed, Len(keyed))
    IN [i \in 1..Len(s) |-> s[i].val]

\* mutant: the sum taken over every segment, whatever its kind
RECURSIVE SumAnyKind(_, _)
SumAnyKind(segments, kind) ==
    IF segments = <<>> THEN 0
    ELSE Head(segments).end - Head(segments).start + SumAnyKind(Tail(segments), kind)

RECURSIVE SumKind(_, _)
SumKind(segments, kind) ==
    IF segments = <<>> THEN 0
    ELSE (IF Head(segments).kind = kind
          THEN Head(segments).end - Head(segments).start ELSE 0)
         + SumKind(Tail(segments), kind)

\* round(x, 2) of a sum of hours x (in seconds), in hundredths of an hour.
\* The float sum lies within a few ulps of the exact value, so round()
\* returns the nearest hundredth; when the exact value lies half-way between
\* two hundredths the float's last bits decide, and either neighbour can come
\* out.
Round2(x) ==
    LET q == x \div CentiHour
        r == x % CentiHour
    IN IF 2 * r < CentiHour THEN {q}
       ELSE IF 2 * r > CentiHour THEN {q + 1}
       ELSE {q, q + 1}

\* ------------------------------------------------------------------ requests

\* week starts of the requests: Monday 00:00 Kyiv time of a week with no zone
\* change, Monday 00:00 UTC of that week (the request schema's example), and
\* Monday 00:00 Kyiv time of the week whose Sunday holds the zone change
AlignedWeek == Day(1) - EEST
UtcWeek == Day(1)
DstWeek == Day(8) - EEST
WeekStarts == {AlignedWeek, UtcWeek, DstWeek}

\* event instants, relative to the week start
EventOffsets ==
    { 0 - Hours(4),
      0 - 1,
      0,
      CentiHour \div 2,
      Hours(8),
      Hours(10) + Hours(1) \div 2,
      Day(5) + Hours(8),
      Day(6) + Hours(3) + Hours(1) \div 2,
      Day(6) + Hours(4) + Hours(1) \div 2,
      Day(7) }

\* the clock, relative to the week start
NowOffsets ==
    { 0 - 1,
      Hours(10) + Hours(1) \div 2,
      Day(2),
      Day(6) + Hours(4),
      Day(8) }

RawEvent(ws) ==
    [timestamp : {ws + d : d \in EventOffsets}, is_online : BOOLEAN]

RECURSIVE SeqsUpTo(_, _)
SeqsUpTo(S, n) ==
    IF n = 0 THEN {<<>>}
    ELSE LET shorter == SeqsUpTo(S, n - 1)
         IN shorter \cup {Append(s, x) : s \in {t \in shorter : Len(t) = n - 1}, x \in S}

\* ---------------------------------------------------------------------- state

VARIABLES
    week_start,      \* req.week_start, an instant
    events,          \* req.events, in arrival order
    now,             \* the clock read by datetime.now(KYIV_TZ), an instant
    pc,              \* "start", "loop"
    initial_status,  \* Optional[bool]
    by_day,          \* local day -> list of {hour, is_online}
    offset,          \* the loop variable of build_week_from_events
    carry,           \* Optional[bool]
    days_draw,       \* the days built so far
    calls            \* the build_day_segments calls made so far

vars == <<week_start, events, now, pc, initial_status, by_day, offset, carry,
          days_draw, calls>>

week_start_dt == parse_ts(week_start)
week_end_dt == PlusDays(week_start_dt, DaysInWeek)
now_kyiv == parse_ts(now)
all_sorted == EventsByTimestamp(events)

\* pre_week and initial_status, lines 212-213
pre_week == SelectSeq(all_sorted, LAMBDA e : parse_ts(e.timestamp) < week_start_dt)
InitialStatus ==
    IF pre_week # <<>> THEN Some(pre_week[Len(pre_week)].is_online) ELSE None

\* mutant: an event at week_start itself is skipped
InWeekAfterStart(e) ==
    ~ (parse_ts(e.timestamp) <= week_start_dt \/ parse_ts(e.timestamp) >= week_end_dt)

\* the grouping loop, lines 216-225
InWeek(e) ==
    ~ (parse_ts(e.timestamp) < week_start_dt \/ parse_ts(e.timestamp) >= week_end_dt)

DayEntry(e) ==
    [hour |-> to_decimal(parse_ts(e.timestamp)), is_online |-> e.is_online]

RECURSIVE MapEntries(_)
MapEntries(evs) ==
    IF evs = <<>> THEN <<>> ELSE <<DayEntry(Head(evs))>> \o MapEntries(Tail(evs))

GroupByDay ==
    LET week == SelectSeq(all_sorted, InWeek)
        keys == {DateOf(parse_ts(week[i].timestamp)) : i \in 1..Len(week)}
    IN [k \in keys |->
          MapEntries(SelectSeq(week, LAMBDA e : DateOf(parse_ts(e.timestamp)) = k))]

Get(d, k) == IF k \in DOMAIN d THEN d[k] ELSE <<>>

Init ==
    /\ week_start \in WeekStarts
    /\ events \in SeqsUpTo(RawEvent(week_start), MaxEvents)
    /\ now \in {week_start + d : d \in NowOffsets}
    /\ pc = "start"
    /\ initial_status = None
    /\ by_day = <<>>
    /\ offset = 0
    /\ carry = None
    /\ days_draw = <<>>
    /\ calls = <<>>

\* lines 204-228: sort, resolve the initial status, group by local day
Prepare ==
    /\ pc = "start"
    /\ initial_status' = InitialStatus
    /\ by_day' = GroupByDay
    /\ carry' = InitialStatus
    /\ offset' = 0
    /\ pc' = "loop"
    /\ UNCHANGED <<week_start, events, now, days_draw, calls>>

day_dt == PlusDays(week_start_dt, offset)
this_date == DateOf(day_dt)
today_kyiv == DateOf(now_kyiv)

\* mutant: tomorrow is not yet taken for a future day
IsFutureDateLate(date, today) == date > today + 1

\* line 237
IsFutureDate(date, today) == date > today

\* mutant: the returned status is not threaded to the next day
NextCarryStale(old_carry, last_status) == old_carry

\* line 262
NextCarry(old_carry, last_status) == last_status

\* lines 237-244: a day after today
FutureDay ==
    /\ pc = "loop"
    /\ offset < DaysInWeek
    /\ IsFutureDate(this_date, today_kyiv)
    /\ days_draw' = Append(days_draw,
          [date_label |-> this_date,
           segments |-> <<Seg(0, FullDay, "future")>>,
           hours_online |-> 0,
           hours_offline |-> 0,
           is_future |-> TRUE])
    /\ offset' = offset + 1
    /\ UNCHANGED <<week_start, events, now, pc, initial_status, by_day, carry, calls>>

Cutoff == IF this_date = today_kyiv THEN Some(to_decimal(now_kyiv)) ELSE None

\* mutant: an unknown segment counts as real data
HasAnyKnownOrUnknown(segments) ==
    \E i \in 1..Len(segments) : segments[i].kind \in {"green", "red", "unknown"}

HasRealData(segments) ==
    \E i \in 1..Len(segments) : segments[i].kind \in {"green", "red"}

\* lines 246-262: today or a past day
BuildDay ==
    /\ pc = "loop"
    /\ offset < DaysInWeek
    /\ ~ IsFutureDate(this_date, today_kyiv)
    /\ LET day_events == DayEventsByHour(Get(by_day, this_date))
           built == build_day_segments(day_events, carry, Cutoff)
       IN /\ \E hon \in Round2(SumKind(built.segments, "green")),
                hoff \in Round2(SumKind(built.segments, "red")) :
                days_draw' = Append(days_draw,
                   [date_label |-> this_date,
                    segments |-> built.segments,
                    hours_online |-> hon,
                    hours_offline |-> hoff,
                    is_future |-> ~ HasRealData(built.segments)])
          /\ carry' = NextCarry(carry, built.status)
          /\ calls' = Append(calls,
                [offset |-> offset, day_events |-> day_events,
                 initial_status |-> carry, cutoff |-> Cutoff])
    /\ offset' = offset + 1
    /\ UNCHANGED <<week_start, events, now, pc, initial_status, by_day>>


\* ------------------------------------------------------------ the claims

Done == pc = "loop" /\ offset = DaysInWeek

Built == 1..Len(days_draw)

\* the local date of the day at position i of days_draw (offset i - 1)
DateAt(i) == DateOf(PlusDays(parse_ts(week_start), i - 1))
Today == DateOf(parse_ts(now))
IsPastAt(i) == DateAt(i) < Today
IsTodayAt(i) == DateAt(i) = Today
IsFutureAt(i) == DateAt(i) > Today

\* the build_day_segments call made for position i, a day that is not future
CallAt(i) == calls[i]
KnownEndAt(i) == KnownEnd(CallAt(i).cutoff)

\* the events of a call that lie before its known end
Processed(c) == SelectSeq(c.day_events, LAMBDA e : e.hour < KnownEnd(c.cutoff))

SegmentKinds(segments) == {segments[i].kind : i \in 1..Len(segments)}

\* the total length of the segments whose kind is in kinds
Duration(segments, kinds) ==
    LET RECURSIVE Upto(_)
        Upto(n) == IF n = 0 THEN 0
                   ELSE Upto(n - 1)
                        + (IF segments[n].kind \in kinds
                           THEN segments[n].end - segments[n].start ELSE 0)
    IN Upto(Len(segments))

AllKinds == {"green", "red", "unknown", "future"}

\* ---- C1

IsPartition(segments) ==
    /\ Len(segments) >= 1
    /\ segments[1].start = 0
    /\ segments[Len(segments)].end = FullDay
    /\ \A i \in 1..Len(segments) : segments[i].start < segments[i].end
    /\ \A i \in 1..(Len(segments) - 1) : segments[i].end = segments[i + 1].start
    /\ Duration(segments, AllKinds) = FullDay

\* C1: every day built, past, today or future, has an interval list that
\* partitions [0,24): it starts at 0, each interval starts where the previous
\* one ended, it ends at 24, no interval is empty, and the durations sum to 24;
\* and build_week_from_events builds 7 days.
C1_DayIsPartition ==
    /\ \A i \in Built : IsPartition(days_draw[i].segments)
    /\ Len(days_draw) = offset
    /\ Len(days_draw) <= DaysInWeek

\* a week with a past day of three intervals, a today cut off at hour 0, and a
\* future day
C1_Witness ==
    /\ Done
    /\ \E i \in Built : IsPastAt(i) /\ Len(days_draw[i].segments) >= 3
    /\ \E i \in Built : IsTodayAt(i) /\ CallAt(i).cutoff = Some(0)
    /\ \E i \in Built : IsFutureAt(i)

\* ---- C2

EndStatus(c) == build_day_segments(c.day_events, c.initial_status, c.cutoff).status

\* C2 as claimed: whenever day N ends in a resolved state S and the next day,
\* not a future day, has no event before its known end, that day's first
\* interval has the kind of S.
C2_LeadingKindAsClaimed ==
    Done =>
        \A j \in 2..Len(calls) :
            LET S == EndStatus(calls[j - 1]) IN
            (S # None /\ Processed(calls[j]) = <<>>)
                => days_draw[j].segments[1].kind = seg_kind(S)

\* C2 amended: the same, for a next day whose known end lies after hour 0;
\* a today cut off at hour 0 has the single interval [0,24) Future.
C2_LeadingKind ==
    Done =>
        \A j \in 2..Len(calls) :
            LET S == EndStatus(calls[j - 1]) IN
            (S # None /\ Processed(calls[j]) = <<>>)
                => IF KnownEndAt(j) > 0
                   THEN /\ days_draw[j].segments[1].kind = seg_kind(S)
                        /\ days_draw[j].segments[1].kind \in {"green", "red"}
                   ELSE days_draw[j].segments = <<Seg(0, FullDay, "future")>>

\* day N ends in a state its own events set, and the next day, with events
\* only after its cutoff, opens with that state
C2_Witness ==
    Done /\ \E j \in 2..Len(calls) :
        /\ Processed(calls[j - 1]) # <<>>
        /\ calls[j - 1].initial_status # EndStatus(calls[j - 1])
        /\ calls[j].day_events # <<>>
        /\ Processed(calls[j]) = <<>>
        /\ KnownEndAt(j) > 0
        /\ Len(days_draw) >= j

\* ---- C3

HasUnknownOrFuture(segments) ==
    SegmentKinds(segments) \cap {"unknown", "future"} # {}

\* 24.0 hours in hundredths of an hour
FullDayCenti == FullDay \div CentiHour

\* C3 as claimed: the reported hoursOn + hoursOff is at most 24.0, and is
\* 24.0 only for a day with no Unknown and no Future interval.
C3_ReportedSumAsClaimed ==
    Done =>
        \A i \in Built :
            LET d == days_draw[i] IN
            /\ d.hours_online + d.hours_offline <= FullDayCenti
            /\ d.hours_online + d.hours_offline = FullDayCenti
                  => ~ HasUnknownOrFuture(d.segments)

\* C3 amended: the unrounded sums add up to at most 24, and to 24 exactly when
\* the day has no Unknown and no Future interval; the reported sums add up to
\* at most 24.01, exceed 24.0 only on a day with no Unknown and no Future
\* interval, and reach 24.0 only on a day whose Unknown and Future intervals
\* together last at most 0.01 hour.
C3_ReportedSum ==
    Done =>
        \A i \in Built :
            LET d == days_draw[i]
                on == Duration(d.segments, {"green"})
                off == Duration(d.segments, {"red"})
                rest == Duration(d.segments, {"unknown", "future"})
            IN /\ on + off <= FullDay
               /\ (on + off = FullDay) <=> ~ HasUnknownOrFuture(d.segments)
               /\ d.hours_online \in Round2(on)
               /\ d.hours_offline \in Round2(off)
               /\ d.hours_online + d.hours_offline <= FullDayCenti + 1
               /\ d.hours_online + d.hours_offline > FullDayCenti
                     => ~ HasUnknownOrFuture(d.segments)
               /\ d.hours_online + d.hours_offline >= FullDayCenti
                     => rest <= CentiHour

\* a day of On and Off hours whose reported sums were both rounded up
C3_Witness ==
    Done /\ \E i \in Built :
        /\ days_draw[i].hours_online > 0
        /\ days_draw[i].hours_offline > 0
        /\ days_draw[i].hours_online + days_draw[i].hours_offline = FullDayCenti + 1

\* ---- C4

NoPreWeekEvent == \A i \in 1..Len(events) : ~ (events[i].timestamp < week_start)

\* the positions of the days built whose call processed at least one event
DaysWithEvent == {j \in 1..Len(calls) : Processed(calls[j]) # <<>>}
FirstEventDay ==
    CHOOSE j \in DaysWithEvent : \A k \in DaysWithEvent : j <= k
FirstEventHour == Processed(calls[FirstEventDay])[1].hour

\* C4: with no event before weekStart, every interval of a day that is not
\* future lying before the first processed event of the week is Unknown (or
\* the Future tail of today), never On or Off, and the carry entering every
\* day up to that event's day is absent.
C4_UnknownUntilFirstEvent ==
    (Done /\ NoPreWeekEvent) =>
            \A j \in 1..Len(calls) :
                LET segs == days_draw[j].segments IN
                IF DaysWithEvent = {} \/ j < FirstEventDay
                THEN /\ calls[j].initial_status = None
                     /\ \A n \in 1..Len(segs) :
                           \/ segs[n].kind = "unknown"
                           \/ segs[n].kind = "future" /\ IsTodayAt(j) /\ n = Len(segs)
                     /\ IsPastAt(j) => segs = <<Seg(0, FullDay, "unknown")>>
                ELSE j = FirstEventDay =>
                     /\ calls[j].initial_status = None
                     /\ \A n \in 1..Len(segs) :
                           segs[n].end <= FirstEventHour => segs[n].kind = "unknown"

\* a week with no earlier history whose first event comes on a later day,
\* after hour 0: an event-free day and the hours before the event are Unknown
C4_Witness ==
    /\ NoPreWeekEvent
    /\ Done
    /\ DaysWithEvent # {}
    /\ FirstEventDay > 1
    /\ FirstEventHour > 0
    /\ days_draw[FirstEventDay].segments[1] = Seg(0, FirstEventHour, "unknown")

\* ---- C5

EventIndices == 1..Len(events)

Entry(e) == [hour |-> to_decimal(parse_ts(e.timestamp)), is_online |-> e.is_online]

\* event i was put into the group of its local day
Partitioned(i) ==
    LET k == DateOf(parse_ts(events[i].timestamp)) IN
    /\ k \in DOMAIN by_day
    /\ \E n \in 1..Len(by_day[k]) : by_day[k][n] = Entry(events[i])

\* the state of the last event before weekStart in the order by instant, ties
\* by arrival; absent when there is none
BeforeStart == {i \in EventIndices : events[i].timestamp < week_start}
LastOf(I) ==
    CHOOSE i \in I : \A j \in I :
        \/ events[j].timestamp < events[i].timestamp
        \/ events[j].timestamp = events[i].timestamp /\ j <= i
ResolvedInitial ==
    IF BeforeStart = {} THEN None ELSE Some(events[LastOf(BeforeStart)].is_online)

AtStart == {i \in EventIndices : events[i].timestamp = week_start}

\* the part of the claim about weekStart itself and the instant before it
C5_StartBoundary ==
    /\ initial_status = ResolvedInitial
    /\ \A i \in EventIndices :
          events[i].timestamp = week_start =>
             /\ Partitioned(i)
             /\ DateOf(parse_ts(events[i].timestamp)) = DateAt(1)
    /\ \A i \in EventIndices :
          events[i].timestamp = week_start - 1 =>
             /\ ~ Partitioned(i)
             /\ \A j \in 1..Len(calls) :
                   DateAt(j) = DateOf(parse_ts(events[i].timestamp)) =>
                      \A n \in 1..Len(days_draw[j].segments) :
                         days_draw[j].segments[n].start = Entry(events[i]).hour
                            => calls[j].cutoff = Some(Entry(events[i]).hour)
    /\ (AtStart # {} /\ Len(calls) >= 1
            /\ to_decimal(parse_ts(week_start)) < KnownEndAt(1)) =>
          \E n \in 1..Len(days_draw[1].segments) :
             /\ days_draw[1].segments[n].start = to_decimal(parse_ts(week_start))
             /\ days_draw[1].segments[n].kind = seg_kind(Some(events[LastOf(AtStart)].is_online))
             /\ week_start \in {AlignedWeek, DstWeek} => n = 1

\* C5 as claimed: an event at weekStart is in the week, in day 0, and is not
\* used to resolve the initial state; an event one instant earlier is in no
\* day, makes no interval boundary, and acts through the initial state only;
\* an event at the instant weekStart + 7 days is not in the week.
C5_WeekBoundaryAsClaimed ==
    pc = "loop" =>
        /\ C5_StartBoundary
        /\ \A i \in EventIndices :
              events[i].timestamp = week_start + DaysInWeek * FullDay => ~ Partitioned(i)

\* C5 amended: the same, with the end of the week taken on the local clock:
\* an event whose local time is weekStart's local time plus 7 calendar days is
\* not in the week.
C5_WeekBoundary ==
    pc = "loop" =>
        /\ C5_StartBoundary
        /\ \A i \in EventIndices :
              parse_ts(events[i].timestamp)
                 = PlusDays(parse_ts(week_start), DaysInWeek) => ~ Partitioned(i)

\* day 0 built from an event at weekStart that reverses the state set by an
\* event one instant earlier
C5_Witness ==
    /\ pc = "loop"
    /\ Len(calls) >= 1
    /\ KnownEndAt(1) > to_decimal(parse_ts(week_start))
    /\ \E i, j \in EventIndices :
          /\ events[i].timestamp = week_start - 1
          /\ events[j].timestamp = week_start
          /\ events[i].is_online # events[j].is_online

\* an event at the local end of the week, left out
C5_EndWitness ==
    /\ Done
    /\ \E i \in EventIndices :
          parse_ts(events[i].timestamp) = PlusDays(parse_ts(week_start), DaysInWeek)

\* ---- C6

\* the carry after the days built so far
ExpectedCarry ==
    IF calls = <<>> THEN initial_status ELSE EndStatus(calls[Len(calls)])

\* C6: a day after today is the single interval [0,24) Future with zero hours
\* and the future flag set, whatever events are dated on it; no
\* build_day_segments call is made for it and it leaves the carry as it was.
C6_FutureDay ==
    pc = "loop" =>
        /\ \A i \in Built :
              IsFutureAt(i) =>
                 /\ days_draw[i].segments = <<Seg(0, FullDay, "future")>>
                 /\ days_draw[i].hours_online = 0
                 /\ days_draw[i].hours_offline = 0
                 /\ days_draw[i].is_future = TRUE
                 /\ \A j \in 1..Len(calls) : calls[j].offset # i - 1
        /\ carry = ExpectedCarry
        /\ Len(calls) = Cardinality({i \in Built : ~ IsFutureAt(i)})

\* a future day built although an event is dated on it, after a day that set
\* the carry
C6_Witness ==
    /\ pc = "loop"
    /\ carry # None
    /\ calls # <<>>
    /\ \E i \in Built :
          /\ IsFutureAt(i)
          /\ \E n \in EventIndices :
                /\ Partitioned(n)
                /\ DateOf(parse_ts(events[n].timestamp)) = DateAt(i)

\* ---- C7

NowHour == to_decimal(parse_ts(now))

\* the events grouped under the day at position i
GroupAt(i) == Get(by_day, DateAt(i))

CutoffCase ==
    /\ Len(days_draw) >= 1
    /\ IsTodayAt(1)
    /\ Len(GroupAt(1)) = 1
    /\ GroupAt(1)[1].is_online = FALSE
    /\ 0 < GroupAt(1)[1].hour
    /\ GroupAt(1)[1].hour < NowHour
    /\ NowHour < FullDay

CutoffSegments ==
    days_draw[1].segments =
        << Seg(0, GroupAt(1)[1].hour, seg_kind(ResolvedInitial)),
           Seg(GroupAt(1)[1].hour, NowHour, "red"),
           Seg(NowHour, FullDay, "future") >>

\* C7 as claimed: today at offset 0 with cutoff c and one event, at hour h
\* with 0 < h < c < 24, turning off: the intervals are [0,h) of the carry's
\* kind, [h,c) Off and [c,24) Future, and hoursOff is c - h (as reported,
\* that is rounded to two decimals), whatever the carry.
C7_CutoffCaseAsClaimed ==
    CutoffCase =>
        /\ CutoffSegments
        /\ days_draw[1].hours_offline \in Round2(NowHour - GroupAt(1)[1].hour)

\* C7 amended: the intervals are as claimed; the reported hoursOff is c - h
\* (rounded to two decimals) when the carry is on or absent, and c when the
\* carry is off, [0,h) being Off as well.
C7_CutoffCase ==
    CutoffCase =>
        /\ CutoffSegments
        /\ days_draw[1].hours_offline \in
              Round2(IF ResolvedInitial = Some(FALSE)
                     THEN NowHour ELSE NowHour - GroupAt(1)[1].hour)
        /\ days_draw[1].hours_online \in
              Round2(IF ResolvedInitial = Some(TRUE) THEN GroupAt(1)[1].hour ELSE 0)
        /\ days_draw[1].is_future = FALSE

\* the instance of the specification: h = 8, c = 10.5, the carry on,
\* hoursOff 2.5
C7_Witness ==
    /\ CutoffCase
    /\ GroupAt(1)[1].hour = Hours(8)
    /\ 2 * NowHour = Hours(21)
    /\ ResolvedInitial = Some(TRUE)
    /\ 2 * days_draw[1].hours_offline = 5 * (FullDayCenti \div HoursPerDay)

\* ---- C8

\* no event before weekStart, and none in the week on the day at position i or
\* on an earlier day
NewSubjectAt(i) ==
    /\ NoPreWeekEvent
    /\ \A n \in EventIndices : DateOf(parse_ts(events[n].timestamp)) > DateAt(i)

\* C8 as claimed: a day that is not future, with no earlier history and no
\* event, is a single interval, Unknown, and is flagged future/unknown.
C8_NewSubjectAsClaimed ==
    Done =>
        \A i \in Built :
            (~ IsFutureAt(i) /\ NewSubjectAt(i)) =>
                /\ Len(days_draw[i].segments) = 1
                /\ days_draw[i].segments[1].kind = "unknown"
                /\ days_draw[i].is_future = TRUE

\* C8 amended: such a past day is the single interval [0,24) Unknown; such a
\* today with cutoff c is [0,c) Unknown followed by [c,24) Future, or
\* [0,24) Future alone when c is hour 0; the day is flagged future/unknown and
\* its hours are zero.
C8_NewSubject ==
    Done =>
        \A i \in Built :
            (~ IsFutureAt(i) /\ NewSubjectAt(i)) =>
                /\ days_draw[i].segments =
                      IF IsPastAt(i) THEN <<Seg(0, FullDay, "unknown")>>
                      ELSE IF NowHour > 0
                           THEN <<Seg(0, NowHour, "unknown"), Seg(NowHour, FullDay, "future")>>
                           ELSE <<Seg(0, FullDay, "future")>>
                /\ days_draw[i].is_future = TRUE
                /\ days_draw[i].hours_online = 0
                /\ days_draw[i].hours_offline = 0

\* a new subject's week with a past day and a today, an event waiting on a
\* later day
C8_Witness ==
    /\ Done
    /\ events # <<>>
    /\ \E i \in Built : IsPastAt(i) /\ NewSubjectAt(i)
    /\ \E i \in Built : IsTodayAt(i) /\ NewSubjectAt(i) /\ NowHour > 0

\* ---- C9

\* day_events with one more event inserted in hour order
WithEvent(day_events, ev) == DayEventsByHour(Append(day_events, ev))

\* hours at and after the known end k
LateHours(k) == {h \in {k, k + 1, k + Hours(1), FullDay - 1} : k <= h /\ h < FullDay}

\* C9: an event at or after the known end changes nothing: the call's result
\* (intervals and returned state) is that of the call without such events, and
\* that of the call with one more such event; every On, Off or Unknown interval
\* ends at or before the known end, and a cutoff c < 24 leaves [c,24) to
\* exactly one interval, Future.
C9_NoLeakPastCutoff ==
    Done =>
        \A j \in 1..Len(calls) :
            LET c == calls[j]
                k == KnownEnd(c.cutoff)
                r == build_day_segments(c.day_events, c.initial_status, c.cutoff)
                segs == days_draw[j].segments
                futures == {n \in 1..Len(segs) : segs[n].kind = "future"}
            IN /\ r.segments = segs
               /\ build_day_segments(Processed(c), c.initial_status, c.cutoff) = r
               /\ \A h \in LateHours(k), b \in BOOLEAN :
                     build_day_segments(WithEvent(c.day_events, [hour |-> h, is_online |-> b]),
                                        c.initial_status, c.cutoff) = r
               /\ r.status = IF Processed(c) = <<>> THEN c.initial_status
                             ELSE Some(Processed(c)[Len(Processed(c))].is_online)
               /\ \A n \in 1..Len(segs) : segs[n].kind # "future" => segs[n].end <= k
               /\ IF c.cutoff # None /\ k < FullDay
                  THEN /\ futures = {Len(segs)}
                       /\ segs[Len(segs)] = Seg(k, FullDay, "future")
                  ELSE futures = {}

\* today with an event before the cutoff and an event, of the other state, at
\* or after it
C9_Witness ==
    Done /\ \E j \in 1..Len(calls) :
        /\ calls[j].cutoff # None
        /\ Processed(calls[j]) # <<>>
        /\ Len(calls[j].day_events) > Len(Processed(calls[j]))
        /\ calls[j].day_events[Len(calls[j].day_events)].is_online
              # Processed(calls[j])[1].is_online
        /\ Len(days_draw) >= j

\* ---- C10

\* weekStart is a local midnight, and the zone offset is the same at every
\* instant of the request
AlignedFixedOffset ==
    /\ to_decimal(parse_ts(week_start)) = 0
    /\ KYIV_TZ(now) = KYIV_TZ(week_start)
    /\ \A i \in EventIndices : KYIV_TZ(events[i].timestamp) = KYIV_TZ(week_start)

\* the reference timeline: the kind set by the last event at or before instant
\* t in the order by instant, ties by arrival
UpTo(t) == {i \in EventIndices : events[i].timestamp <= t}
ReferenceKind(t) ==
    IF UpTo(t) = {} THEN "unknown" ELSE seg_kind(Some(events[LastOf(UpTo(t))].is_online))

KindAt(segments, h) ==
    LET n == CHOOSE n \in 1..Len(segments) : segments[n].start <= h /\ h < segments[n].end
    IN segments[n].kind

KnownEndOf(i) == IF IsTodayAt(i) THEN NowHour ELSE FullDay

\* the hours of the day at position i where the day's intervals or the
\* reference timeline can change, and the hour before each
ChangeHours(i) ==
    LET segs == days_draw[i].segments
        marks == {segs[n].start : n \in 1..Len(segs)}
                 \cup {segs[n].end : n \in 1..Len(segs)}
                 \cup {events[n].timestamp - (week_start + (i - 1) * FullDay) :
                          n \in EventIndices}
    IN {h \in marks \cup {m - 1 : m \in marks} \cup {m + 1 : m \in marks} :
           0 <= h /\ h < KnownEndOf(i)}

\* C10: with weekStart at a local midnight and a fixed zone offset, on every
\* day that is not future and at every hour before the day's known end, the
\* kind of the interval holding that hour is the reference timeline's: that of
\* the last event at or before it, Unknown when there is none.
C10_ReferenceTimeline ==
    (Done /\ AlignedFixedOffset) =>
            \A i \in Built :
                ~ IsFutureAt(i) =>
                    \A h \in ChangeHours(i) :
                        KindAt(days_draw[i].segments, h)
                            = ReferenceKind(week_start + (i - 1) * FullDay + h)

\* a finished week whose two events before weekStart arrived latest first and
\* disagree, with past days to draw
C10_Witness ==
    /\ AlignedFixedOffset
    /\ Done
    /\ Len(events) >= 2
    /\ events[2].timestamp < events[1].timestamp
    /\ events[1].timestamp < week_start
    /\ events[1].is_online # events[2].is_online
    /\ \E i \in Built : IsPastAt(i)

\* ---- C11

\* build_week_from_events run on the event list evs, with the request's
\* weekStart and the same clock: the 7 days, the hours unrounded
WeekOf(evs) ==
    LET sorted == EventsByTimestamp(evs)
        before == SelectSeq(sorted, LAMBDA e : parse_ts(e.timestamp) < week_start_dt)
        week == SelectSeq(sorted, InWeek)
        keys == {DateOf(parse_ts(week[i].timestamp)) : i \in 1..Len(week)}
        grouped == [k \in keys |->
                      MapEntries(SelectSeq(week, LAMBDA e : DateOf(parse_ts(e.timestamp)) = k))]
        RECURSIVE DaysFrom(_, _)
        DaysFrom(o, c) ==
            IF o = DaysInWeek THEN <<>>
            ELSE LET date == DateOf(PlusDays(week_start_dt, o)) IN
                 IF IsFutureDate(date, today_kyiv)
                 THEN <<[segments |-> <<Seg(0, FullDay, "future")>>,
                         on |-> 0, off |-> 0, is_future |-> TRUE]>>
                      \o DaysFrom(o + 1, c)
                 ELSE LET cutoff == IF date = today_kyiv
                                    THEN Some(to_decimal(now_kyiv)) ELSE None
                          built == build_day_segments(
                                      DayEventsByHour(Get(grouped, date)), c, cutoff)
                      IN <<[segments |-> built.segments,
                            on |-> SumKind(built.segments, "green"),
                            off |-> SumKind(built.segments, "red"),
                            is_future |-> ~ HasRealData(built.segments)]>>
                         \o DaysFrom(o + 1, NextCarry(c, built.status))
    IN DaysFrom(0, IF before # <<>> THEN Some(before[Len(before)].is_online) ELSE None)

\* the event lists that hold the events of evs in another order
Reorderings(evs) ==
    LET n == Len(evs)
        bijections == {f \in [1..n -> 1..n] : \A i, j \in 1..n : f[i] = f[j] => i = j}
    IN {[i \in 1..n |-> evs[f[i]]] : f \in bijections}

\* the days drawn are those of week: the same intervals and flags, the hours
\* the rounded sums
DrawnAs(week) ==
    /\ Len(days_draw) = Len(week)
    /\ \A i \in 1..Len(week) :
          /\ days_draw[i].segments = week[i].segments
          /\ days_draw[i].is_future = week[i].is_future
          /\ days_draw[i].hours_online \in Round2(week[i].on)
          /\ days_draw[i].hours_offline \in Round2(week[i].off)

DistinctInstants ==
    \A i, j \in EventIndices : events[i].timestamp = events[j].timestamp => i = j

\* C11: for a fixed weekStart and a fixed clock, when the events have pairwise
\* distinct instants every reordering of the event list gives the same 7 days
\* (intervals, kinds, hours and flags) as the list itself.
C11_OrderIndependence ==
    (Done /\ DistinctInstants) =>
        \A evs \in Reorderings(events) : DrawnAs(WeekOf(evs))

\* the same where no two events share a local wall-clock time, which distinct
\* instants ensure under a fixed zone offset
DistinctWallClock ==
    \A i, j \in EventIndices :
        parse_ts(events[i].timestamp) = parse_ts(events[j].timestamp) => i = j

C11_WallClockOrderIndependence ==
    (Done /\ DistinctWallClock) =>
        \A evs \in Reorderings(events) : DrawnAs(WeekOf(evs))

\* a week drawn from two events of different instants and states that arrived
\* latest first, on a day that is drawn
C11_Witness ==
    /\ Done
    /\ DistinctWallClock
    /\ Len(events) >= 2
    /\ events[2].timestamp < events[1].timestamp
    /\ events[1].is_online # events[2].is_online
    /\ Partitioned(1) /\ Partitioned(2)
    /\ DateOf(parse_ts(events[1].timestamp)) = DateOf(parse_ts(events[2].timestamp))
    /\ \E i \in Built : IsPastAt(i) /\ DateAt(i) = DateOf(parse_ts(events[1].timestamp))

Next == Prepare \/ FutureDay \/ BuildDay

Spec == Init /\ [][Next]_vars

====
